---- MODULE Spec2Model ----
(***************************************************************************)
(* A model of nirbt.py: the start-up sequence (main, bootstrap), the       *)
(* remote-to-server matcher (validate_repo, pick_repo), the commit-range   *)
(* resolver (get_commits) and the upload command (command_upload).         *)
(*                                                                         *)
(* Python values that may be None are sequences: <<>> is None and <<v>> is *)
(* the value v.  Strings the code parses (remote URLs, upstream reference  *)
(* names) are sequences of one-character strings; revision strings are     *)
(* sequences of tokens ("HEAD", an abbreviated hash "c1", "^", "..").      *)
(* Output through writeout is kept only for the error channel (stderr);    *)
(* settings.verbose changes what is printed and nothing else, and is not   *)
(* part of the state.  The texts command_upload assembles (description,    *)
(* diff, summary) are not part of it either: only which server operations  *)
(* are invoked, and in which order, is recorded.                           *)
(***************************************************************************)
EXTENDS Integers, Sequences, FiniteSets, TLC

VARIABLES
    args,          \* argparse namespace: [dry_run, commits, func]
    config_file,   \* what ConfigParser.read(PATH_CONFIG) finds
    cwd_in_repo,   \* whether os.getcwd() lies inside a git repository
    remotes,       \* repo.remotes: sequence of [name, url]
    server_repos,  \* what the review server's repository list holds
    repo,          \* the commit graph: [parents, head]
    branches,      \* local branches: sequence of [is_head, upstream_name]
    pc,            \* position in the program
    settings,      \* the Settings global
    vr,            \* locals of validate_repo
    gc,            \* locals of get_commits
    cu,            \* locals of command_upload
    server_calls,  \* review-server operations invoked so far, in order
    browser,       \* whether webbrowser.open was called
    stderr,        \* messages written to CHAN.ERROR, in order
    called,        \* the command functions main has called, in order
    exception,     \* the uncaught exception that ended the run, "" if none
    exit_status    \* the process's exit status, -1 while running

envVars == <<args, config_file, cwd_in_repo, remotes, server_repos, repo, branches>>
ioVars == <<server_calls, browser, stderr>>
endVars == <<exception, exit_status>>
vars == <<args, config_file, cwd_in_repo, remotes, server_repos, repo, branches,
          pc, settings, vr, gc, cu, server_calls, browser, stderr, called,
          exception, exit_status>>

-----------------------------------------------------------------------------
(* Bounds *)

\* commits in the repository (get_commits specification)
MaxCommits == 4
\* configured remotes (matcher specification)
MaxRemotes == 2
\* repositories the server lists (matcher specification)
MaxServerRepos == 2
\* commits in the repository (whole-run specification)
RunCommits == 2

-----------------------------------------------------------------------------
(* Python values *)

None == <<>>
Some(v) == <<v>>
\* Python truthiness of an optional string: None and "" are both false
Truthy(x) == x # None /\ x[1] # <<>>

Min(S) == CHOOSE x \in S : \A y \in S : x <= y
Max(S) == CHOOSE x \in S : \A y \in S : x >= y
Last(s) == s[Len(s)]

RECURSIVE Cat(_)
Cat(ss) == IF ss = <<>> THEN <<>> ELSE Head(ss) \o Cat(Tail(ss))

\* s has the literal lit at position i
LitAt(s, i, lit) ==
    /\ i >= 1
    /\ i + Len(lit) - 1 <= Len(s)
    /\ \A k \in 1..Len(lit) : s[i + k - 1] = lit[k]

\* the regular expression '.' matches any character but a newline
Dot(ch) == ch # "\n"

\* a call's outcome: the exception it raised ("" if none) and what it returned
Raise(e) == [exc |-> e, val |-> None]
Return(v) == [exc |-> "", val |-> v]

-----------------------------------------------------------------------------
\* RE_NI_GIT: 'git.natinst.com', an optional ':', '/', a group of one or more
\* characters, '.git'

HOST == <<"g","i","t",".","n","a","t","i","n","s","t",".","c","o","m">>
DOTGIT == <<".","g","i","t">>

\* One attempt of the pattern at position i, with the optional colon taken
\* (colon = 1) or skipped (colon = 0): the set of positions e at which the
\* closing '\.git' can start, i.e. host, colon, '/', one or more characters.
NiGitEnds(url, i, colon) ==
    LET p == i + Len(HOST)
        q == p + colon
    IN  IF /\ LitAt(url, i, HOST)
           /\ (colon = 1 => LitAt(url, p, <<":">>))
           /\ LitAt(url, q, <<"/">>)
        THEN {e \in (q + 2)..Len(url) :
                 /\ LitAt(url, e, DOTGIT)
                 /\ \A k \in (q + 1)..(e - 1) : Dot(url[k])}
        ELSE {}

\* A faulty variant of the pattern, 'git\.natinst\.com[:/](.+)\.git': either
\* separator alone, instead of an optional colon before the slash.
RE_NI_GIT_search_either_separator(url) ==
    LET ends(i) == IF /\ LitAt(url, i, HOST)
                      /\ (LitAt(url, i + Len(HOST), <<":">>) \/ LitAt(url, i + Len(HOST), <<"/">>))
                   THEN {e \in (i + Len(HOST) + 2)..Len(url) : LitAt(url, e, DOTGIT)}
                   ELSE {}
        starts == {i \in 1..Len(url) : ends(i) # {}}
    IN  IF starts = {} THEN None
        ELSE Some(SubSeq(url, Min(starts) + Len(HOST) + 1, Max(ends(Min(starts))) - 1))

\* RE_NI_GIT.search(url): <<>> when there is no match, else <<group(1)>>.
\* search takes the leftmost position that matches; ':?' is greedy (the colon
\* is tried first) and so is '.+' (the last '.git' closes the group).
RE_NI_GIT_search(url) ==
    LET starts == {i \in 1..Len(url) :
                      NiGitEnds(url, i, 1) # {} \/ NiGitEnds(url, i, 0) # {}}
    IN  IF starts = {} THEN None
        ELSE LET i == Min(starts)
                 colon == IF NiGitEnds(url, i, 1) # {} THEN 1 ELSE 0
                 q == i + Len(HOST) + colon
                 e == Max(NiGitEnds(url, i, colon))
             IN  Some(SubSeq(url, q + 1, e - 1))

-----------------------------------------------------------------------------
\* RE_UPSTREAM: 'refs/remotes/', one or more \w, '/', then a group of any characters

REFS_REMOTES == <<"r","e","f","s","/","r","e","m","o","t","e","s","/">>

\* \w: letters, digits and the underscore (those the model's names use)
WordChars == {"a","b","c","d","e","f","g","h","i","j","k","l","m","n","o","p",
              "q","r","s","t","u","v","w","x","y","z","0","1","2","_"}

\* lengths k >= 1 of a run of \w characters at position p that a '/' follows
UpstreamRuns(name, p) ==
    {k \in 1..Len(name) :
        /\ p + k <= Len(name)
        /\ \A j \in 0..(k - 1) : name[p + j] \in WordChars
        /\ name[p + k] = "/"}

\* RE_UPSTREAM.search(name): <<>> when there is no match, else <<group(1)>>;
\* the \w run is greedy and the group runs to the end of the name (of its line)
RE_UPSTREAM_search(name) ==
    LET starts == {i \in 1..Len(name) :
                      /\ LitAt(name, i, REFS_REMOTES)
                      /\ UpstreamRuns(name, i + Len(REFS_REMOTES)) # {}}
    IN  IF starts = {} THEN None
        ELSE LET p == Min(starts) + Len(REFS_REMOTES)
                 k == Max(UpstreamRuns(name, p))
                 rest == SubSeq(name, p + k + 1, Len(name))
                 stop == {j \in 1..Len(rest) : ~Dot(rest[j])}
             IN  Some(IF stop = {} THEN rest ELSE SubSeq(rest, 1, Min(stop) - 1))

-----------------------------------------------------------------------------
\* The local repository as pygit2 shows it

\* abbreviated hash of commit i, as the user types it
Hash(i) == "c" \o ToString(i)

\* the parent lists a new commit can have over k older commits: a root, an
\* ordinary commit, or a merge of two
ParentChoices(k) ==
    {<<>>} \cup {<<a>> : a \in 1..k}
           \cup {ps \in (1..k) \X (1..k) : ps[1] # ps[2]}

\* the histories of exactly n commits, numbered in creation order
RECURSIVE Histories(_)
Histories(n) ==
    IF n = 0 THEN {<<>>}
    ELSE {Append(h, ps) : h \in Histories(n - 1), ps \in ParentChoices(n - 1)}

\* repositories of at most n commits; HEAD is the newest commit, and is unborn
\* (0) in a repository without commits
Repos(n) ==
    {[parents |-> h, head |-> Len(h)] : h \in UNION {Histories(k) : k \in 0..n}}

Commits(r) == 1..Len(r.parents)
ParentSet(r, c) == {r.parents[c][k] : k \in DOMAIN r.parents[c]}

\* the commits reachable from c, c included
RECURSIVE Reach(_, _)
Reach(r, c) == {c} \cup UNION {Reach(r, d) : d \in ParentSet(r, c)}

\* repo.revparse_single(rev): <<commit>>, or <<>> where pygit2 raises KeyError
\* (nothing of that name, an unborn HEAD, '^' of a commit without parents)
RECURSIVE revparse_single(_, _)
revparse_single(r, rev) ==
    IF rev = <<>> THEN None
    ELSE IF Last(rev) = "^"
    THEN LET c == revparse_single(r, SubSeq(rev, 1, Len(rev) - 1))
         IN  IF c = None \/ r.parents[c[1]] = <<>> THEN None
             ELSE Some(r.parents[c[1]][1])
    ELSE IF Len(rev) # 1 THEN None
    ELSE IF rev[1] = "HEAD" THEN (IF r.head = 0 THEN None ELSE Some(r.head))
    ELSE LET ids == {i \in Commits(r) : Hash(i) = rev[1]}
         IN  IF ids = {} THEN None ELSE Some(CHOOSE i \in ids : TRUE)

\* repo.walk(start, GIT_SORT_TOPOLOGICAL | GIT_SORT_TIME): the commits that can
\* come next once `emitted` have been yielded.  The walk yields the commits
\* reachable from start, each one after all of its children; among those the
\* newest commit time goes first.  Commit times are free data of the commits,
\* and every topological order is the time-sorted one for some times, so any
\* commit whose children have all been yielded may be the next.
WalkNext(r, start, emitted) ==
    {c \in Reach(r, start) \ emitted :
        \A d \in Reach(r, start) : c \in ParentSet(r, d) => d \in emitted}

-----------------------------------------------------------------------------
\* Inputs

U(host, sep, path, suffix) == Cat(<<host, sep, path, suffix>>)
OTHERHOST == <<"g","i","t","x","n","a","t","i","n","s","t",".","c","o","m">>
NameA == <<"a">>
NameB == <<"b">>

\* remote URLs: the host followed by '/', ':/' or ':', with and without the
\* '.git' ending, an empty path, another host, text around the pattern
Urls ==
    {U(HOST, sep, NameA, DOTGIT) : sep \in {<<"/">>, <<":", "/">>, <<":">>}}
    \cup {U(HOST, <<"/">>, NameB, DOTGIT),
          U(HOST, <<"/">>, NameA, <<>>),
          U(HOST, <<"/">>, <<>>, DOTGIT),
          U(OTHERHOST, <<"/">>, NameA, DOTGIT),
          U(HOST, <<"/">>, NameA, DOTGIT \o DOTGIT),
          <<"s">> \o U(HOST, <<":", "/">>, NameB, DOTGIT) \o <<"/", "x">>}

RemoteName(i) == "remote" \o ToString(i)

\* the remote lists of at most n remotes with URLs from urls
RemoteLists(n, urls) ==
    {[i \in 1..Len(us) |-> [name |-> RemoteName(i), url |-> us[i]]] :
        us \in UNION {[1..k -> urls] : k \in 0..n}}

ServerRepo(id, name) ==
    [id |-> id, name |-> name, tool |-> "Git", path |-> "/srv/git/" \o ToString(id)]

\* the server's repository lists of at most n records; ids are the server's
\* primary keys, so no two records share one; names may repeat
ServerLists(n, names) ==
    {s \in UNION {[1..k -> {ServerRepo(i, nm) : i \in 1..n, nm \in names}] : k \in 0..n} :
        \A i, j \in DOMAIN s : i # j => s[i].id # s[j].id}

-----------------------------------------------------------------------------
\* State at start-up

\* class Settings
Settings0 ==
    [client |-> FALSE, commit_start |-> None, commit_end |-> None, config |-> FALSE,
     dry_run |-> FALSE, local_repo |-> FALSE, rb_repo |-> None]

Vr0 == [repo_names |-> {}, rb_repos |-> <<>>, selection |-> {}, r_id |-> None,
        ret |-> None]
Gc0 == [start |-> None, end |-> None, commit_start |-> None, commit_end |-> None,
        commits |-> <<>>, base |-> None, ret |-> "pending"]
Cu0 == [tracking |-> None, commits |-> <<>>, commit_prev |-> None, ret |-> None]

\* the program's own state before main runs
Start(at) ==
    /\ pc = at
    /\ vr = Vr0
    /\ gc = Gc0
    /\ cu = Cu0
    /\ server_calls = <<>>
    /\ browser = FALSE
    /\ stderr = <<>>
    /\ called = <<>>
    /\ exception = ""
    /\ exit_status = -1

\* an exception nobody catches ends the process: Python prints the traceback
\* and exits with status 1
Uncaught(e) ==
    /\ pc' = "exit"
    /\ exception' = e
    /\ exit_status' = 1

-----------------------------------------------------------------------------
\* validate_repo and pick_repo

\* rb_repo['name'] comes out of the server's JSON as a unicode string already
unicode(name) == name

\* 'a is b' on the ids of records of one list: the same object, or the same
\* small integer
Is(a, b) == a = b

\* A faulty variant of pick_repo: the loop keeps going and the last match wins.
pick_repo_last(selection, rb_repos) ==
    IF Cardinality(selection) = 0 THEN Raise("NameError")
    ELSE LET hits == {i \in DOMAIN rb_repos : unicode(rb_repos[i].name) \in selection}
         IN  IF hits = {} THEN Raise("NameError")
             ELSE Return(Some(rb_repos[Max(hits)].id))

\* pick_repo(selection, rb_repos).  The empty branch formats its message with
\* the undefined name 'server', and the fall-through returns the undefined
\* name 'sel_id': both raise NameError.
pick_repo(selection, rb_repos) ==
    IF Cardinality(selection) = 0 THEN Raise("NameError")
    ELSE LET hits == {i \in DOMAIN rb_repos : unicode(rb_repos[i].name) \in selection}
         IN  IF hits = {} THEN Raise("NameError")
             ELSE Return(Some(rb_repos[Min(hits)].id))

\* lines 340-346: group(1) of every remote URL the pattern matches, as a set
RepoNames(rs) ==
    {m[1] : m \in {RE_NI_GIT_search(rs[i].url) : i \in DOMAIN rs} \ {None}}

\* lines 340-353: the identifiers of the remotes; none at all is reported and
\* validate_repo returns False before the server is asked
validate_repo_names ==
    /\ pc = "validate_repo"
    /\ \E repo_names \in {RepoNames(remotes)} :
           /\ vr' = [vr EXCEPT !.repo_names = repo_names,
                               !.ret = IF repo_names = {} THEN Some(FALSE) ELSE None]
           /\ pc' = IF repo_names = {} THEN "validate_repo_return"
                    ELSE "validate_repo_query"
           /\ stderr' = IF repo_names = {} THEN Append(stderr, "no repository names")
                        ELSE stderr
    /\ UNCHANGED <<envVars, settings, gc, cu, server_calls, browser, called, endVars>>

\* lines 359-369: the server's list, its names, the intersection
validate_repo_query ==
    /\ pc = "validate_repo_query"
    /\ server_calls' = Append(server_calls, "get_repositories")
    /\ vr' = [vr EXCEPT !.rb_repos = server_repos,
                        !.selection = vr.repo_names \cap
                            {server_repos[i].name : i \in DOMAIN server_repos}]
    /\ pc' = "validate_repo_pick"
    /\ UNCHANGED <<envVars, settings, gc, cu, browser, stderr, called, endVars>>

\* line 371: r_id = pick_repo(selection, rb_repos)
validate_repo_pick ==
    /\ pc = "validate_repo_pick"
    /\ LET got == pick_repo(vr.selection, vr.rb_repos)
       IN  IF got.exc # ""
           THEN /\ Uncaught(got.exc)
                /\ UNCHANGED vr
           ELSE /\ vr' = [vr EXCEPT !.r_id = got.val]
                /\ pc' = "validate_repo_select"
                /\ UNCHANGED endVars
    /\ UNCHANGED <<envVars, settings, gc, cu, ioVars, called>>

\* lines 372-376: the first record whose id is r_id becomes settings.rb_repo
validate_repo_select ==
    /\ pc = "validate_repo_select"
    /\ LET hits == {i \in DOMAIN vr.rb_repos : Is(vr.rb_repos[i].id, vr.r_id[1])}
       IN  IF hits # {}
           THEN /\ settings' = [settings EXCEPT !.rb_repo = Some(vr.rb_repos[Min(hits)])]
                /\ vr' = [vr EXCEPT !.ret = Some(TRUE)]
           ELSE /\ vr' = [vr EXCEPT !.ret = Some(FALSE)]
                /\ UNCHANGED settings
    /\ pc' = "validate_repo_return"
    /\ UNCHANGED <<envVars, gc, cu, ioVars, called, endVars>>

validate_repo ==
    \/ validate_repo_names
    \/ validate_repo_query
    \/ validate_repo_pick
    \/ validate_repo_select

\* The matcher on its own: validate_repo entered after bootstrap has read the
\* configuration and opened the repository
InitMatcher ==
    /\ args = [dry_run |-> FALSE, commits |-> None, func |-> "command_upload"]
    /\ config_file = "ok"
    /\ cwd_in_repo = TRUE
    /\ remotes \in RemoteLists(MaxRemotes, Urls)
    /\ server_repos \in ServerLists(MaxServerRepos, {NameA, NameB})
    /\ repo = [parents |-> <<>>, head |-> 0]
    /\ branches = <<>>
    /\ settings = [Settings0 EXCEPT !.client = TRUE, !.config = TRUE, !.local_repo = TRUE]
    /\ Start("validate_repo")

NextMatcher == validate_repo

SpecMatcher == InitMatcher /\ [][NextMatcher]_vars

-----------------------------------------------------------------------------
\* get_commits(repo, start, end)

Elems(s) == {s[i] : i \in DOMAIN s}

\* lines 269-277: both revisions are resolved; end defaults to start
get_commits_resolve ==
    /\ pc = "get_commits"
    /\ LET end == IF Truthy(gc.end) THEN gc.end ELSE gc.start
           commit_start == revparse_single(repo, gc.start[1])
           commit_end == revparse_single(repo, end[1])
       IN  IF commit_start = None \/ commit_end = None
           THEN /\ Uncaught("KeyError")
                /\ UNCHANGED gc
           ELSE /\ gc' = [gc EXCEPT !.end = end, !.commit_start = commit_start,
                                    !.commit_end = commit_end, !.commits = <<>>]
                /\ pc' = "get_commits_walk"
                /\ UNCHANGED endVars
    /\ UNCHANGED <<envVars, settings, vr, cu, ioVars, called>>

\* A faulty variant of the loop: without the break, the walk runs to its end.
get_commits_walk_no_break ==
    /\ pc = "get_commits_walk"
    /\ LET next == WalkNext(repo, gc.commit_start[1], Elems(gc.commits))
       IN  IF next = {}
           THEN /\ pc' = "get_commits_base"
                /\ UNCHANGED gc
           ELSE \E commit \in next :
                /\ gc' = [gc EXCEPT !.commits = Append(gc.commits, commit)]
                /\ pc' = "get_commits_walk"
    /\ UNCHANGED <<envVars, settings, vr, cu, ioVars, called, endVars>>

\* lines 283-288: one turn of the loop over the walk; the loop ends with the
\* break at end's commit, or when the walk has nothing left
get_commits_walk ==
    /\ pc = "get_commits_walk"
    /\ LET next == WalkNext(repo, gc.commit_start[1], Elems(gc.commits))
       IN  IF next = {}
           THEN /\ pc' = "get_commits_base"
                /\ UNCHANGED gc
           ELSE \E commit \in next :
                /\ gc' = [gc EXCEPT !.commits = Append(gc.commits, commit)]
                /\ pc' = IF commit = gc.commit_end[1] THEN "get_commits_base"
                         ELSE "get_commits_walk"
    /\ UNCHANGED <<envVars, settings, vr, cu, ioVars, called, endVars>>

\* lines 289-292: the walk raises pygit2.GitError (an internal git error);
\* it is reported and get_commits returns None
get_commits_giterror ==
    /\ pc = "get_commits_walk"
    /\ stderr' = Append(stderr, "could not get commits")
    /\ gc' = [gc EXCEPT !.ret = "None"]
    /\ pc' = "get_commits_return"
    /\ UNCHANGED <<envVars, settings, vr, cu, server_calls, browser, called, endVars>>

\* line 293: return (commits, repo.revparse_single(end + "^"))
get_commits_base ==
    /\ pc = "get_commits_base"
    /\ LET base == revparse_single(repo, Append(gc.end[1], "^"))
       IN  IF base = None
           THEN /\ Uncaught("KeyError")
                /\ UNCHANGED gc
           ELSE /\ gc' = [gc EXCEPT !.base = base, !.ret = "tuple"]
                /\ pc' = "get_commits_return"
                /\ UNCHANGED endVars
    /\ UNCHANGED <<envVars, settings, vr, cu, ioVars, called>>

get_commits ==
    \/ get_commits_resolve
    \/ get_commits_walk
    \/ get_commits_giterror
    \/ get_commits_base

\* the revisions a user can name in a repository of at most n commits
Revs(n) == {<<"HEAD">>} \cup {<<Hash(i)>> : i \in 1..n}

\* get_commits on its own: called with a start and an optional end (None and
\* "" both mean 'the same as start') on an opened repository
InitCommits ==
    /\ args = [dry_run |-> FALSE, commits |-> None, func |-> "command_upload"]
    /\ config_file = "ok"
    /\ cwd_in_repo = TRUE
    /\ remotes = <<>>
    /\ server_repos = <<>>
    /\ repo \in Repos(MaxCommits)
    /\ branches = <<>>
    /\ settings = [Settings0 EXCEPT !.client = TRUE, !.config = TRUE, !.local_repo = TRUE]
    /\ pc = "get_commits"
    /\ vr = Vr0
    /\ \E start \in Revs(MaxCommits), end \in {None, Some(<<>>)} \cup {Some(e) : e \in Revs(MaxCommits)} :
          gc = [Gc0 EXCEPT !.start = Some(start), !.end = end]
    /\ cu = Cu0
    /\ server_calls = <<>>
    /\ browser = FALSE
    /\ stderr = <<>>
    /\ called = <<"command_upload">>
    /\ exception = ""
    /\ exit_status = -1

NextCommits == get_commits

SpecCommits == InitCommits /\ [][NextCommits]_vars

-----------------------------------------------------------------------------
\* main, bootstrap and the commands

\* string.split(s, '..', maxsplit): the pieces of s between the first maxsplit
\* separators
RECURSIVE Split(_, _)
Split(toks, maxsplit) ==
    LET seps == {i \in DOMAIN toks : toks[i] = ".."}
    IN  IF maxsplit = 0 \/ seps = {} THEN <<toks>>
        ELSE <<SubSeq(toks, 1, Min(seps) - 1)>>
             \o Split(SubSeq(toks, Min(seps) + 1, Len(toks)), maxsplit - 1)

\* lines 240-251: eval_args, the first thing bootstrap does.  test[1] raises
\* IndexError when the argument holds no '..'; it is caught, and commit_start
\* has been set by then.
eval_args ==
    /\ pc = "main"
    /\ LET test == IF Truthy(args.commits) THEN Split(args.commits[1], 2) ELSE <<>>
       IN  settings' = [settings EXCEPT
               !.dry_run = IF args.dry_run THEN TRUE ELSE settings.dry_run,
               !.commit_start = IF Len(test) >= 1 THEN Some(test[1])
                                ELSE settings.commit_start,
               !.commit_end = IF Len(test) >= 2 THEN Some(test[2])
                              ELSE settings.commit_end]
    /\ pc' = "bootstrap_config"
    /\ UNCHANGED <<envVars, vr, gc, cu, ioVars, called, endVars>>

\* lines 81-92: no configuration file raises Exception, which nothing catches
bootstrap_config ==
    /\ pc = "bootstrap_config"
    /\ IF config_file = "missing"
       THEN /\ Uncaught("Exception")
            /\ UNCHANGED settings
       ELSE /\ settings' = [settings EXCEPT !.config = TRUE, !.client = TRUE]
            /\ pc' = "discover_repo"
            /\ UNCHANGED endVars
    /\ UNCHANGED <<envVars, vr, gc, cu, ioVars, called>>

\* lines 95-96 and 221-231: discover_repo; bootstrap returns False when it fails
discover_repo ==
    /\ pc = "discover_repo"
    /\ IF cwd_in_repo
       THEN /\ settings' = [settings EXCEPT !.local_repo = TRUE]
            /\ pc' = "validate_repo"
            /\ UNCHANGED stderr
       ELSE /\ stderr' = Append(stderr, "no repository found")
            /\ pc' = "bootstrap_false"
            /\ UNCHANGED settings
    /\ UNCHANGED <<envVars, vr, gc, cu, server_calls, browser, called, endVars>>

\* lines 98-101: bootstrap returns what validate_repo returned
bootstrap_return ==
    /\ pc = "validate_repo_return"
    /\ pc' = IF vr.ret = Some(TRUE) THEN "bootstrap_true" ELSE "bootstrap_false"
    /\ vr' = Vr0
    /\ UNCHANGED <<envVars, settings, gc, cu, ioVars, called, endVars>>

\* A faulty variant of main: the result of bootstrap is ignored and the command
\* is called all the same.
main_abort_calls_command ==
    /\ pc = "bootstrap_false"
    /\ called' = Append(called, args.func)
    /\ pc' = args.func
    /\ UNCHANGED <<envVars, settings, vr, gc, cu, ioVars, endVars>>

\* lines 56-57: return 1, which sys.exit makes the exit status
main_abort ==
    /\ pc = "bootstrap_false"
    /\ pc' = "exit"
    /\ exit_status' = 1
    /\ UNCHANGED <<envVars, settings, vr, gc, cu, ioVars, called, exception>>

\* line 64: args.func(args)
main_call ==
    /\ pc = "bootstrap_true"
    /\ called' = Append(called, args.func)
    /\ pc' = args.func
    /\ UNCHANGED <<envVars, settings, vr, gc, cu, ioVars, endVars>>

\* line 65: return 0, whatever the command returned
main_return ==
    /\ pc = "main_return"
    /\ pc' = "exit"
    /\ exit_status' = 0
    /\ UNCHANGED <<envVars, settings, vr, gc, cu, ioVars, called, exception>>

\* lines 116-124
command_update ==
    /\ pc = "command_update"
    /\ stderr' = Append(stderr, "command not implemented")
    /\ pc' = "main_return"
    /\ UNCHANGED <<envVars, settings, vr, gc, cu, server_calls, browser, called, endVars>>

\* lines 143-152: the loop over the local branches.  branch.upstream_name of a
\* branch without upstream raises, and the except clause passes.
RECURSIVE InferTracking(_, _)
InferTracking(bs, tracking) ==
    IF bs = <<>> THEN tracking
    ELSE LET branch == Head(bs)
             match == IF branch.upstream_name = None THEN None
                      ELSE RE_UPSTREAM_search(branch.upstream_name[1])
         IN  InferTracking(Tail(bs),
                 IF branch.is_head /\ match # None THEN match ELSE tracking)

\* lines 139-161: the default start, the tracking branch, the call of get_commits
command_upload_begin ==
    /\ pc = "command_upload"
    /\ LET commit_start == IF Truthy(settings.commit_start) THEN settings.commit_start
                           ELSE Some(<<"HEAD">>)
       IN  /\ settings' = [settings EXCEPT !.commit_start = commit_start]
           /\ gc' = [Gc0 EXCEPT !.start = commit_start, !.end = settings.commit_end]
    /\ cu' = [cu EXCEPT !.tracking = InferTracking(branches, None)]
    /\ pc' = "get_commits"
    /\ UNCHANGED <<envVars, vr, ioVars, called, endVars>>

\* lines 159-190: unpacking None raises TypeError; otherwise the description,
\* the diff of commit_prev against commits[0] and the summary are prepared
command_upload_unpack ==
    /\ pc = "get_commits_return"
    /\ IF gc.ret = "None"
       THEN /\ Uncaught("TypeError")
            /\ UNCHANGED cu
       ELSE /\ cu' = [cu EXCEPT !.commits = gc.commits, !.commit_prev = gc.base]
            /\ pc' = "command_upload_submit"
            /\ UNCHANGED endVars
    /\ gc' = Gc0
    /\ UNCHANGED <<envVars, settings, vr, ioVars, called>>

\* the calls of lines 204-211, after the review request was created
SubmitCalls(tracking) ==
    <<"upload_diff", "get_draft", "update_draft">>
    \o (IF tracking # None THEN <<"update_draft">> ELSE <<>>)
    \o <<"get_session", "update_draft">>

\* A faulty variant of the submission: the dry-run test is missing.
command_upload_submit_always ==
    /\ pc = "command_upload_submit"
    /\ settings.rb_repo # None
    /\ server_calls' = server_calls \o <<"create">> \o SubmitCalls(cu.tracking)
    /\ browser' = TRUE
    /\ cu' = [cu EXCEPT !.ret = Some(TRUE)]
    /\ pc' = "main_return"
    /\ UNCHANGED <<envVars, settings, vr, gc, stderr, called, endVars>>

\* lines 192-213: nothing is sent in a dry run; otherwise the request is
\* created (the server may refuse), filled in and opened in the browser
command_upload_submit ==
    /\ pc = "command_upload_submit"
    /\ settings.rb_repo # None
    /\ IF ~settings.dry_run
       THEN \E created \in BOOLEAN :
            IF ~created
            THEN /\ server_calls' = Append(server_calls, "create")
                 /\ stderr' = Append(stderr, "could not create review request")
                 /\ cu' = [cu EXCEPT !.ret = Some(FALSE)]
                 /\ UNCHANGED browser
            ELSE /\ server_calls' = server_calls \o <<"create">> \o SubmitCalls(cu.tracking)
                 /\ browser' = TRUE
                 /\ cu' = [cu EXCEPT !.ret = Some(TRUE)]
                 /\ UNCHANGED stderr
       ELSE /\ cu' = [cu EXCEPT !.ret = Some(TRUE)]
            /\ UNCHANGED ioVars
    /\ pc' = "main_return"
    /\ UNCHANGED <<envVars, settings, vr, gc, called, endVars>>

-----------------------------------------------------------------------------
\* The whole run

ORIGIN_DEVELOP == REFS_REMOTES \o <<"o","r","i","g","i","n","/","d","e","v","e","l","o","p">>
ORIGIN_FEATURE == REFS_REMOTES \o <<"o","r","i","g","i","n","/","f","i","x","/","u","i">>
MYFORK_DEVELOP == REFS_REMOTES \o <<"m","y","-","f","o","r","k","/","d","e","v","e","l","o","p">>
HEADS_DEVELOP == <<"r","e","f","s","/","h","e","a","d","s","/","d","e","v","e","l","o","p">>

Branch(is_head, upstream_name) == [is_head |-> is_head, upstream_name |-> upstream_name]

\* no branch at all, a detached HEAD, a checked-out branch without upstream,
\* with an upstream on 'origin', on 'my-fork', with a name that is no
\* remote-tracking reference, and a second branch beside the checked-out one
RunBranches ==
    {<<>>,
     <<Branch(FALSE, Some(ORIGIN_DEVELOP))>>,
     <<Branch(TRUE, None)>>,
     <<Branch(TRUE, Some(ORIGIN_DEVELOP))>>,
     <<Branch(TRUE, Some(MYFORK_DEVELOP))>>,
     <<Branch(TRUE, Some(HEADS_DEVELOP))>>,
     <<Branch(TRUE, Some(ORIGIN_FEATURE)), Branch(FALSE, Some(ORIGIN_DEVELOP))>>}

\* no remote, a remote that is no NI repository, one the server knows (a) and
\* one it does not know (c)
RunRemotes ==
    RemoteLists(1, {U(HOST, <<"/">>, NameA, DOTGIT),
                    U(HOST, <<":", "/">>, <<"c">>, DOTGIT),
                    U(OTHERHOST, <<"/">>, NameA, DOTGIT)})

\* the positional argument of 'upload': absent, one revision, or start..end
\* with either side possibly empty
RunCommitArgs ==
    LET side == {<<>>, <<"HEAD">>, <<Hash(1)>>}
    IN  {None} \cup {Some(a) : a \in side \ {<<>>}}
               \cup {Some(a \o <<"..">> \o b) : a \in side, b \in side}

Init ==
    /\ args \in [dry_run : BOOLEAN, commits : RunCommitArgs,
                 func : {"command_upload", "command_update"}]
    /\ config_file \in {"missing", "ok"}
    /\ cwd_in_repo \in BOOLEAN
    /\ remotes \in RunRemotes
    /\ server_repos = <<ServerRepo(1, NameA), ServerRepo(2, NameB)>>
    /\ repo \in Repos(RunCommits)
    /\ branches \in RunBranches
    /\ settings = Settings0
    /\ Start("main")

Next ==
    \/ eval_args
    \/ bootstrap_config
    \/ discover_repo
    \/ validate_repo
    \/ bootstrap_return
    \/ main_abort
    \/ main_call
    \/ main_return
    \/ command_update
    \/ command_upload_begin
    \/ get_commits
    \/ command_upload_unpack
    \/ command_upload_submit

Spec == Init /\ [][Next]_vars

-----------------------------------------------------------------------------
\* Properties of the matcher (SpecMatcher)

ServerNames == {server_repos[i].name : i \in DOMAIN server_repos}

\* the identifiers of the remotes that are names on the server
Intersection == RepoNames(remotes) \cap ServerNames

\* position in the server's list of the first record with a name in names
FirstMatch(names) == Min({i \in DOMAIN server_repos : server_repos[i].name \in names})

MatcherDone == pc \in {"validate_repo_return", "exit"}

\* C1: when the identifiers of the remotes and the server's names intersect,
\* validate_repo succeeds and settings.rb_repo is exactly the record that comes
\* first in the server's list among those named in the intersection.
C1_FirstMatchSelected ==
    MatcherDone =>
        LET names == Intersection
        IN  names # {} =>
                /\ pc = "validate_repo_return"
                /\ vr.ret = Some(TRUE)
                /\ settings.rb_repo = Some(server_repos[FirstMatch(names)])

\* two records of the server match, and the first listed one (not the one with
\* the smaller id) was selected
C1_Witness ==
    /\ pc = "validate_repo_return"
    /\ Len(server_repos) = 2
    /\ server_repos[1].name # server_repos[2].name
    /\ {server_repos[1].name, server_repos[2].name} \subseteq Intersection
    /\ server_repos[1].id > server_repos[2].id
    /\ settings.rb_repo = Some(server_repos[1])

\* C2: when the intersection is empty the matcher reports the failure,
\* validate_repo returns False, and settings.rb_repo stays unset.
C2_EmptyIntersectionReturnsFalse ==
    (MatcherDone /\ Intersection = {}) =>
        /\ exception = ""
        /\ vr.ret = Some(FALSE)
        /\ stderr # <<>>
        /\ settings.rb_repo = None

\* the URLs of the shape host, sep, a non-empty path, '.git' (anywhere in the
\* URL), for the separators seps: the identifier the leftmost host and the
\* last '.git' after it enclose
ShapeEnds(url, i, sep) ==
    IF LitAt(url, i, HOST) /\ LitAt(url, i + Len(HOST), sep)
    THEN {e \in (i + Len(HOST) + Len(sep) + 1)..Len(url) : LitAt(url, e, DOTGIT)}
    ELSE {}
ShapeIdentifiers(url, seps) ==
    LET starts == {i \in 1..Len(url) : \E sep \in seps : ShapeEnds(url, i, sep) # {}}
    IN  IF starts = {} THEN {}
        ELSE {SubSeq(url, Min(starts) + Len(HOST) + Len(sep),
                     Max(ShapeEnds(url, Min(starts), sep)) - 1) :
                 sep \in {x \in seps : ShapeEnds(url, Min(starts), x) # {}}}
IdentifiersOfShape(seps) ==
    UNION {ShapeIdentifiers(remotes[i].url, seps) : i \in DOMAIN remotes}

\* validate_repo has just collected the identifiers of the remotes
NamesExtracted ==
    \/ pc = "validate_repo_query"
    \/ pc = "validate_repo_return" /\ vr.repo_names = {}

-----------------------------------------------------------------------------
\* Properties of get_commits (SpecCommits)

FirstParent(c) == IF repo.parents[c] = <<>> THEN None ELSE Some(repo.parents[c][1])

\* generation distance: the number of parent steps on a shortest path from c
\* down to its ancestor e
RECURSIVE Distance(_, _)
Distance(c, e) ==
    IF c = e THEN 0
    ELSE 1 + Min({Distance(d, e) : d \in {x \in ParentSet(repo, c) : e \in Reach(repo, x)}})

Returned == pc = "get_commits_return" /\ gc.ret = "tuple"
WalkCompleted == pc \in {"get_commits_base", "get_commits_return"} /\ gc.ret # "None"
EndIsAncestor == gc.commit_end[1] \in Reach(repo, gc.commit_start[1])

\* C4: with start = "HEAD" and end "HEAD" or absent, get_commits returns the
\* head alone and the head's parent as base, and base None for a head without
\* parent, rather than failing.
C4_HeadAlone ==
    (/\ pc \in {"get_commits_return", "exit"}
     /\ gc.start = Some(<<"HEAD">>)
     /\ gc.end \in {None, Some(<<"HEAD">>)}
     /\ repo.head # 0
     /\ gc.ret # "None") =>
        /\ exception = ""
        /\ gc.ret = "tuple"
        /\ gc.commits = <<repo.head>>
        /\ gc.base = FirstParent(repo.head)

\* C5 as stated: when end is an ancestor of start, the returned sequence starts
\* with start, ends with end, and holds generation distance + 1 commits.
C5_LengthIsDistancePlusOne ==
    (Returned /\ EndIsAncestor) =>
        /\ gc.commits # <<>>
        /\ gc.commits[1] = gc.commit_start[1]
        /\ Last(gc.commits) = gc.commit_end[1]
        /\ Len(gc.commits) = Distance(gc.commit_start[1], gc.commit_end[1]) + 1

\* every commit of the sequence but the last has exactly one parent
Linear(cs) == \A k \in 1..(Len(cs) - 1) : Len(repo.parents[cs[k]]) = 1

\* C5, amended: when end is start or an ancestor of start and the walk raises
\* no git error, the sequence get_commits collects starts with start, ends
\* with end, holds no commit twice and no commit after one of its ancestors,
\* and has at least generation distance + 1 commits: exactly that many when
\* every commit in it but the last has a single parent, more when the commits
\* of a side branch come before end in the walk.
C5_WalkFromStartToEnd ==
    (WalkCompleted /\ EndIsAncestor) =>
        LET cs == gc.commits
            distance == Distance(gc.commit_start[1], gc.commit_end[1])
        IN  /\ cs # <<>>
            /\ cs[1] = gc.commit_start[1]
            /\ Last(cs) = gc.commit_end[1]
            /\ \A i, j \in DOMAIN cs : i < j => cs[i] \notin Reach(repo, cs[j])
            /\ Len(cs) >= distance + 1
            /\ Linear(cs) => Len(cs) = distance + 1

\* a merge was walked down to an ancestor: the commits of both sides are in the
\* returned sequence, which is longer than the distance + 1
C5_Witness ==
    /\ Returned
    /\ EndIsAncestor
    /\ Len(repo.parents[gc.commit_start[1]]) = 2
    /\ Len(gc.commits) > Distance(gc.commit_start[1], gc.commit_end[1]) + 1

\* C10: whenever get_commits returns, with end reachable from start or not,
\* every returned commit is reachable from start, the sequence is a prefix of
\* the walk that ends with end's commit, and base is the first parent of the
\* last commit of the sequence.
C10_RangeEndsWithEnd ==
    Returned =>
        LET cs == gc.commits
        IN  /\ cs # <<>>
            /\ \A k \in DOMAIN cs : cs[k] \in Reach(repo, gc.commit_start[1])
            /\ \A k \in DOMAIN cs :
                  cs[k] \in WalkNext(repo, gc.commit_start[1], Elems(SubSeq(cs, 1, k - 1)))
            /\ Last(cs) = gc.commit_end[1]
            /\ gc.base = FirstParent(Last(cs))

-----------------------------------------------------------------------------
\* Properties of the whole run (Spec)

Submissions == {"create", "upload_diff", "update_draft"}
NothingSubmitted ==
    /\ \A i \in DOMAIN server_calls : server_calls[i] \notin Submissions
    /\ ~browser

\* C3: in a run with --dry-run, no review request is created, no diff is
\* uploaded, no draft is updated and no browser is opened.
C3_DryRunSubmitsNothing == args.dry_run => NothingSubmitted

\* a dry run of upload went through the submission step and ended
C3_Witness ==
    /\ pc = "exit"
    /\ args.dry_run
    /\ called = <<"command_upload">>
    /\ cu.ret = Some(TRUE)
    /\ cu.commits # <<>>
    /\ exit_status = 0

\* the empty history: a repository without commits, or a walk that failed
EmptyHistory ==
    \/ repo.head = 0
    \/ \E i \in DOMAIN stderr : stderr[i] = "could not get commits"

\* C6: when the walk yields no commits, upload neither crashes nor contacts the
\* server for a submission, and the run ends successfully.
C6_EmptyHistoryIsNoCrash ==
    (pc = "exit" /\ called = <<"command_upload">> /\ EmptyHistory) =>
        /\ exception = ""
        /\ exit_status = 0
        /\ NothingSubmitted

\* start-up fails: no configuration file, no repository, or no remote whose
\* identifier is a name on the server
StartupFails ==
    \/ config_file = "missing"
    \/ ~cwd_in_repo
    \/ Intersection = {}

\* C7: when start-up fails the command is never called, nothing is submitted,
\* and the run exits with a non-zero status; and whenever something has been
\* submitted, settings.rb_repo is set.
C7_StartupFailureAborts ==
    /\ StartupFails =>
          /\ called = <<>>
          /\ NothingSubmitted
          /\ pc = "exit" => exit_status # 0
    /\ ~NothingSubmitted => settings.rb_repo # None

\* a run whose remote names a repository the server does not know has asked
\* the server for its list and ended with status 1 before any command
C7_Witness ==
    /\ pc = "exit"
    /\ config_file = "ok"
    /\ cwd_in_repo
    /\ RepoNames(remotes) # {}
    /\ Intersection = {}
    /\ server_calls = <<"get_repositories">>
    /\ called = <<>>
    /\ exit_status = 1

\* the short name C9 expects: of the checked-out branch's upstream, what
\* follows 'refs/remotes/<remote>/', whatever the remote is called; None
\* without checked-out branch, without upstream, or for another kind of name
ShortName(name) ==
    LET slashes == {k \in (Len(REFS_REMOTES) + 2)..Len(name) : name[k] = "/"}
    IN  IF LitAt(name, 1, REFS_REMOTES) /\ slashes # {}
        THEN Some(SubSeq(name, Min(slashes) + 1, Len(name)))
        ELSE None
ExpectedTracking ==
    LET heads == {i \in DOMAIN branches : branches[i].is_head}
    IN  IF heads = {} THEN None
        ELSE LET b == branches[Max(heads)]
             IN  IF b.upstream_name = None THEN None ELSE ShortName(b.upstream_name[1])

\* C9: the tracking branch is None without upstream, for a malformed upstream
\* name and without checked-out branch, and the upstream's short name for
\* every configured upstream, whatever the remote's name.
C9_TrackingIsShortName ==
    (called = <<"command_upload">> /\ pc # "command_upload") =>
        cu.tracking = ExpectedTracking

====
